---- MODULE Spec2Model ----
(***************************************************************************)
(* Clork ML environment adapter (python/clork_env.py): one ClorkEnv       *)
(* driving one engine subprocess over a line-delimited JSON protocol.     *)
(*                                                                         *)
(* The state is the ClorkEnv object's fields, the table of the engine     *)
(* processes it has spawned (status, lines written to stdin, unread lines *)
(* in the stdout pipe, unread stderr text) and the last event (what the   *)
(* last call returned or raised).  Every method is an operator from the   *)
(* state record before the call to the state record after it; an          *)
(* exception is the field exc of the record, and a method that calls      *)
(* another passes the exception on as Python does.  The engine is an      *)
(* opaque peer: what it answers to a line (a reply line, or nothing       *)
(* because it died) is an input of the action, drawn from                 *)
(* EngineReactions.                                                        *)
(*                                                                         *)
(* Three specifications share the operators: Spec (one ClorkEnv and its   *)
(* engine), SpecFn (Action.to_dict and from_dict, the shorthand grammar   *)
(* and valid_actions, applied to arguments drawn by the initial state)    *)
(* and SpecVec (a ClorkVecEnv and the engines of its children).           *)
(***************************************************************************)
EXTENDS Naturals, Sequences, FiniteSets, TLC

VARIABLES
    process,        \* self._process: 0 (None) or the index of the Popen in procs
    observation,    \* self._observation
    last_reward,    \* self._last_reward
    done,           \* self._done
    use_rewards,    \* self.use_rewards (fixed at construction)
    procs,          \* every engine process this environment has spawned
    result,         \* the last event: what the last call returned or raised,
                    \* or that the engine has exited since
    envs,           \* ClorkVecEnv.envs: the child environments, in index order
    call            \* the last call of a function of no ClorkEnv state:
                    \* its name, its argument and what it returned

vars == <<process, observation, last_reward, done, use_rewards, procs, result,
          envs, call>>

----------------------------------------------------------------------------
(* Bounds of the model *)

\* processes one environment may spawn in a run
MaxProcs == 2
\* lines written to the engine processes in one run: reset, step and
\* get_stats write a command line only while fewer have been written
MaxLines == 2
\* tokens of a shorthand string passed to step()
MaxTokens == 5
\* children of the ClorkVecEnv (num_envs)
NumEnvs == 2
\* lines written to the processes of one child in one run
MaxChildLines == 1

----------------------------------------------------------------------------
(* Values *)

\* self._process = None
NoProcess == 0

\* Optional JSON members and optional values: <<>> is absent, <<v>> is present
Absent == <<>>
Has(opt) == opt # <<>>
Val(opt) == opt[1]

\* A line of the engine's stdout after json.loads, or the text that does not
\* parse.  kind: "object" (a JSON object), "array" and "number" (JSON values
\* that are not objects), "text" (not JSON).  The members are those the
\* adapter looks at.
Line(kind, composite, rewards, game_over, stats) ==
    [kind |-> kind, composite_reward |-> composite,
     rewards |-> rewards, game_over |-> game_over, session_stats |-> stats]

\* self._observation = None
NoObservation == Line("None", Absent, Absent, Absent, Absent)

\* the "rewards" member: a mapping with or without "score-delta", or a value
\* that is no mapping
RewardsValues ==
    { [shape |-> "map", score_delta |-> <<1>>],
      [shape |-> "map", score_delta |-> Absent],
      [shape |-> "number", score_delta |-> Absent] }

\* JSON objects the engine may answer: the combinations of reward members
\* the reward policy tells apart, with a final turn and a reply to stats
\* among them
ObjectLines ==
    { Line("object", Absent, Absent, Absent, Absent),
      Line("object", <<3>>, Absent, Absent, <<7>>),
      Line("object", Absent, <<[shape |-> "map", score_delta |-> <<1>>]>>, <<FALSE>>, Absent),
      Line("object", <<3>>, <<[shape |-> "map", score_delta |-> <<1>>]>>, <<TRUE>>, Absent),
      Line("object", Absent, <<[shape |-> "map", score_delta |-> Absent]>>, Absent, Absent),
      Line("object", Absent, <<[shape |-> "number", score_delta |-> Absent]>>, Absent, Absent) }

NonObjectLines ==
    { Line("array", Absent, Absent, Absent, Absent),
      Line("number", Absent, Absent, Absent, Absent) }

TextLines == { Line("text", Absent, Absent, Absent, Absent) }

EngineLines == ObjectLines \cup NonObjectLines \cup TextLines

\* what the error stream may hold when the engine dies
StderrTexts == {"", "Exception in thread main"}

\* What the engine does with one input (its start, or one command line): it
\* writes one line (out = <<line>>) or dies writing none (out = <<>>), leaving
\* err on its error stream.  exits: whether it exits within the timeout when
\* the input is quit.
EngineReactions ==
    { [out |-> <<l>>, err |-> "", exits |-> TRUE] : l \in EngineLines }
    \cup { [out |-> <<>>, err |-> t, exits |-> TRUE] : t \in StderrTexts }

\* what the engine does with quit: exit in time, or not
QuitReactions == { [out |-> <<>>, err |-> "", exits |-> x] : x \in BOOLEAN }

----------------------------------------------------------------------------
(* Action and its wire form *)

\* an absent (None) field of an Action
None == "<None>"

\* the direction vocabulary of the shorthand grammar
directions ==
    { "n", "s", "e", "w", "ne", "nw", "se", "sw",
      "north", "south", "east", "west",
      "northeast", "northwest", "southeast", "southwest",
      "up", "down", "u", "d", "in", "out" }

\* Python truthiness of an Optional[str]: None and "" are false
Truthy(v) == v # None /\ v # ""

\* a dict with at most the key k
Entry(k, v, present) == IF present THEN k :> v ELSE <<>>

\* Action(verb, direction, direct_object, indirect_object, prep)
Action(verb, direction, direct_object, indirect_object, prep) ==
    [verb |-> verb, direction |-> direction, direct_object |-> direct_object,
     indirect_object |-> indirect_object, prep |-> prep]

\* Mutant of to_dict: every field is encoded, the absent ones as null
to_dict_with_nulls(a) ==
    ("verb" :> a.verb) @@ ("direction" :> a.direction)
    @@ ("direct-object" :> a.direct_object)
    @@ ("indirect-object" :> a.indirect_object) @@ ("prep" :> a.prep)

\* Action.to_dict
to_dict(a) ==
    ("verb" :> a.verb)
    @@ Entry("direction", a.direction, Truthy(a.direction))
    @@ Entry("direct-object", a.direct_object, Truthy(a.direct_object))
    @@ Entry("indirect-object", a.indirect_object, Truthy(a.indirect_object))
    @@ Entry("prep", a.prep, Truthy(a.prep))

\* d.get(k): None when the dict has no key k
Get(d, k) == IF k \in DOMAIN d THEN d[k] ELSE None

\* d.get(k, default)
GetOr(d, k, default) == IF k \in DOMAIN d THEN d[k] ELSE default

\* Action.from_dict
from_dict(d) ==
    Action(Get(d, "verb"), Get(d, "direction"), Get(d, "direct-object"),
           Get(d, "indirect-object"), Get(d, "prep"))

\* " ".join(tokens)
RECURSIVE Join(_)
Join(tokens) ==
    IF Len(tokens) = 0 THEN ""
    ELSE IF Len(tokens) = 1 THEN tokens[1]
    ELSE tokens[1] \o " " \o Join(Tail(tokens))

\* ClorkEnv._parse_action_string, on parts = action_str.lower().split()
_parse_action_string(parts) ==
    IF Len(parts) = 0 THEN [verb |-> "look"]
    ELSE IF parts[1] \in directions
        THEN ("verb" :> "go") @@ ("direction" :> parts[1])
    ELSE IF Len(parts) = 1 THEN [verb |-> parts[1]]
    ELSE IF Len(parts) = 2
        THEN ("verb" :> parts[1]) @@ ("direct-object" :> parts[2])
    ELSE IF Len(parts) >= 4
        THEN ("verb" :> parts[1]) @@ ("direct-object" :> parts[2])
             @@ ("prep" :> parts[3]) @@ ("indirect-object" :> parts[4])
    ELSE ("verb" :> parts[1]) @@ ("direct-object" :> Join(Tail(parts)))

\* The three forms step() accepts: an Action, a shorthand string (its
\* tokens), an already-shaped wire dict
AsAction(a) == [form |-> "Action", action |-> a, parts |-> <<>>, dict |-> <<>>]
AsStr(parts) ==
    [form |-> "str",
     action |-> [verb |-> None, direction |-> None, direct_object |-> None,
                 indirect_object |-> None, prep |-> None],
     parts |-> parts, dict |-> <<>>]
AsDict(d) ==
    [form |-> "dict",
     action |-> [verb |-> None, direction |-> None, direct_object |-> None,
                 indirect_object |-> None, prep |-> None],
     parts |-> <<>>, dict |-> d]

\* the actions the caller passes to step(): one command in each form
StepInputs ==
    { AsAction([verb |-> "look", direction |-> None, direct_object |-> None,
                indirect_object |-> None, prep |-> None]),
      AsStr(<<"look">>),
      AsDict([verb |-> "look"]) }

\* step(), lines 243-249: the wire dict of an action of any form
action_dict(action) ==
    IF action.form = "Action" THEN to_dict(action.action)
    ELSE IF action.form = "str" THEN _parse_action_string(action.parts)
    ELSE action.dict

----------------------------------------------------------------------------
(* valid_actions: the enumeration of the menu of an observation *)

EXCLUDED_META_VERBS == {"quit", "save", "restore", "restart"}

\* lines 339-341: one verb-only Action per meta-verb that passes the filter
RECURSIVE MetaVerbActions(_, _)
MetaVerbActions(verbs, include_dangerous) ==
    IF verbs = <<>> THEN <<>>
    ELSE (IF include_dangerous \/ Head(verbs) \notin EXCLUDED_META_VERBS
             THEN <<Action(Head(verbs), None, None, None, None)>>
             ELSE <<>>)
         \o MetaVerbActions(Tail(verbs), include_dangerous)

\* lines 344-346: one go Action per direction
RECURSIVE MovementActions(_)
MovementActions(dirs) ==
    IF dirs = <<>> THEN <<>>
    ELSE <<Action("go", Head(dirs), None, None, None)>>
         \o MovementActions(Tail(dirs))

\* lines 351-352: one Action per verb of one object
RECURSIVE VerbActions(_, _)
VerbActions(obj_id, verbs) ==
    IF verbs = <<>> THEN <<>>
    ELSE <<Action(Head(verbs), None, obj_id, None, None)>>
         \o VerbActions(obj_id, Tail(verbs))

\* lines 349-352: object_actions.items() is the sequence of the pairs
\* <<obj_id, obj_info>> in the key order of the mapping
RECURSIVE ObjectActions(_)
ObjectActions(items) ==
    IF items = <<>> THEN <<>>
    ELSE VerbActions(Head(items)[1], GetOr(Head(items)[2], "verbs", <<>>))
         \o ObjectActions(Tail(items))

\* lines 355-361: one Action per two-object tuple
RECURSIVE TwoObjectActions(_)
TwoObjectActions(tuples) ==
    IF tuples = <<>> THEN <<>>
    ELSE <<Action(Get(Head(tuples), "verb"), None, Get(Head(tuples), "direct-object"),
                  Get(Head(tuples), "indirect-object"), Get(Head(tuples), "prep"))>>
         \o TwoObjectActions(Tail(tuples))

\* Mutant of valid_actions: the filter is applied to the verbs of objects too
valid_actions_filtering_all(obs, include_dangerous) ==
    IF obs.kind = "None" THEN [exc |-> "RuntimeError", actions |-> <<>>]
    ELSE IF obs.kind # "object" THEN [exc |-> "AttributeError", actions |-> <<>>]
    ELSE LET va == GetOr(obs.members, "valid-actions", <<>>)
             keep(a) == include_dangerous \/ a.verb \notin EXCLUDED_META_VERBS
         IN  [exc |-> "none",
              actions |->
                 MetaVerbActions(GetOr(va, "meta-verbs", <<>>), include_dangerous)
                 \o MovementActions(GetOr(GetOr(va, "movement", <<>>), "directions", <<>>))
                 \o SelectSeq(ObjectActions(GetOr(va, "object-actions", <<>>)), keep)
                 \o TwoObjectActions(GetOr(va, "two-object-actions", <<>>))]

\* ClorkEnv.valid_actions on the cached observation obs: a record of kind
\* "None" (self._observation is None), "object" with the members of the
\* JSON object, or "array" (a JSON value without .get)
valid_actions(obs, include_dangerous) ==
    IF obs.kind = "None" THEN [exc |-> "RuntimeError", actions |-> <<>>]
    ELSE IF obs.kind # "object" THEN [exc |-> "AttributeError", actions |-> <<>>]
    ELSE LET va == GetOr(obs.members, "valid-actions", <<>>)
         IN  [exc |-> "none",
              actions |->
                 MetaVerbActions(GetOr(va, "meta-verbs", <<>>), include_dangerous)
                 \o MovementActions(GetOr(GetOr(va, "movement", <<>>), "directions", <<>>))
                 \o ObjectActions(GetOr(va, "object-actions", <<>>))
                 \o TwoObjectActions(GetOr(va, "two-object-actions", <<>>))]

----------------------------------------------------------------------------
(* The engine process and its three streams *)

\* subprocess.Popen(...): a live process, nothing written, nothing to read.
\* stdin_count and stdin_last: how many lines the adapter has written to its
\* stdin and the last of them; stdout: the lines in the pipe not read yet;
\* stdout_read: which of the engine's lines was read last; stderr: the text
\* not read yet; stderr_log: all the engine ever wrote there.
NewProcess ==
    [status |-> "alive", stdin_count |-> 0, stdin_last |-> Absent,
     stdout |-> <<>>, stdout_read |-> Absent, stderr |-> "", stderr_log |-> ""]

\* stdin.write(line) and flush on a live process: one more line received by
\* the engine
Write(p, line) ==
    [p EXCEPT !.stdin_count = @ + 1, !.stdin_last = <<line>>]

\* The engine handles one input (its start, or the line just written): it
\* appends one line to its stdout, or it exits leaving e.err on stderr and
\* its stdout at EOF.  A line in the pipe carries seq, the number of lines
\* the engine had received when it wrote it (0: the initial observation).
EngineReact(p, e) ==
    IF Has(e.out)
        THEN [p EXCEPT !.stdout = Append(@, [seq |-> p.stdin_count, line |-> Val(e.out)])]
        ELSE [p EXCEPT !.status = "exited", !.stderr = e.err, !.stderr_log = e.err]

\* stdout.readline() with a line in the pipe: the line leaves the pipe;
\* stdout_read remembers which of the engine's lines it was
ReadLine(p) ==
    [p EXCEPT !.stdout = Tail(@), !.stdout_read = <<Head(p.stdout).seq>>]

\* stderr.read(): the text leaves the stream
DrainStderr(p) == [p EXCEPT !.stderr = ""]

\* Popen.kill(): SIGKILL to a process that has not exited yet, nothing
\* otherwise
kill(p) ==
    IF p.status = "alive" THEN [p EXCEPT !.status = "killed"] ELSE p

----------------------------------------------------------------------------
(* ClorkEnv: the state record a method works on *)

\* ClorkEnv.__init__: no process, no observation.  exc, diag: the exception
\* a method ends with and its text; ret, ret_reward, ret_done: what it
\* returns
NewEnv(rewards_mode) ==
    [process |-> NoProcess, observation |-> NoObservation, last_reward |-> 0,
     done |-> FALSE, use_rewards |-> rewards_mode, procs |-> <<>>,
     exc |-> "none", diag |-> "", ret |-> NoObservation,
     ret_reward |-> 0, ret_done |-> FALSE]

\* raise: the exception and the text it carries
Raise(s, exc, diag) == [s EXCEPT !.exc = exc, !.diag = diag]

\* return of a helper that yields a decoded line
Return(s, line) == [s EXCEPT !.ret = line]

Raised(s) == s.exc # "none"

\* the state with the held process replaced by p
WithProcess(s, p) == [s EXCEPT !.procs[s.process] = p]

\* self._process = None: the Popen object is released and its pipes are
\* closed with it; what stays is the process itself (its status, the lines
\* it was sent)
Released(p) ==
    [p EXCEPT !.stdout = <<>>, !.stdout_read = Absent, !.stderr = "", !.stderr_log = ""]

\* close(), the try block: write quit and wait up to the timeout.  raised:
\* the write failed (the process has exited: BrokenPipeError) or the wait
\* timed out (TimeoutExpired)
Quit(p, e) ==
    IF p.status # "alive" THEN [p |-> p, raised |-> TRUE]
    ELSE IF e.exits
        THEN [p |-> [Write(p, [verb |-> "quit"]) EXCEPT !.status = "exited"],
              raised |-> FALSE]
    ELSE [p |-> Write(p, [verb |-> "quit"]), raised |-> TRUE]

\* Mutant of close: no except clause, the failure of the try block escapes
close_raising(s, e) ==
    IF s.process # NoProcess
        THEN LET t == Quit(s.procs[s.process], e)
                 s1 == [WithProcess(s, Released(t.p)) EXCEPT !.process = NoProcess]
             IN  IF t.raised THEN Raise(s1, "BrokenPipe", "") ELSE s1
        ELSE s

\* Mutant of close: no finally clause, the handle is dropped only when the
\* try block ends normally
close_without_finally(s, e) ==
    IF s.process # NoProcess
        THEN LET t == Quit(s.procs[s.process], e)
             IN  IF t.raised THEN WithProcess(s, kill(t.p))
                 ELSE [WithProcess(s, Released(t.p)) EXCEPT !.process = NoProcess]
        ELSE s

\* Mutant of close: the except clause does not kill
close_without_kill(s, e) ==
    IF s.process # NoProcess
        THEN [WithProcess(s, Released(Quit(s.procs[s.process], e).p))
                EXCEPT !.process = NoProcess]
        ELSE s

\* ClorkEnv.close: quit, wait up to the timeout, kill on any exception, and
\* drop the handle in every case
\* Mutant of close: the handle is dropped without quit and without kill
close_dropping(s, e) ==
    IF s.process # NoProcess THEN [s EXCEPT !.process = NoProcess] ELSE s

close(s, e) ==
    IF s.process # NoProcess
        THEN LET t == Quit(s.procs[s.process], e)
                 after == IF t.raised THEN kill(t.p) ELSE t.p
             IN  [WithProcess(s, Released(after)) EXCEPT !.process = NoProcess]
        ELSE s

\* ClorkEnv._start_process: close a held process, then spawn a new one
_start_process(s, e) ==
    LET s1 == IF s.process # NoProcess THEN close(s, e) ELSE s
    IN  [s1 EXCEPT !.procs = Append(@, NewProcess), !.process = Len(s1.procs) + 1]

\* Mutant of ProcessDied: an empty read answered with a default observation
ProcessDied_default(s, p) ==
    Return(WithProcess(s, p), Line("object", Absent, Absent, Absent, Absent))

\* _send_action lines 187-190, _read_initial_state lines 200-202: the read
\* gave no line; drain stderr and raise with its text
\* Mutant of ProcessDied: the handle of the dead process is released
ProcessDied_releasing(s, p) ==
    [Raise(WithProcess(s, DrainStderr(p)), "ProcessDied", p.stderr)
        EXCEPT !.process = NoProcess]

ProcessDied(s, p) ==
    Raise(WithProcess(s, DrainStderr(p)), "ProcessDied", p.stderr)

\* json.loads(response_line) on the line at the head of the pipe of p
Decode(s, p) ==
    LET line == Head(p.stdout).line
        s1 == WithProcess(s, ReadLine(p))
    IN  IF line.kind = "text" THEN Raise(s1, "MalformedReply", "")
        ELSE Return(s1, line)

\* _send_action lines 180-192, on a held process: write, then read and
\* decode one line.  The write to a process that has exited raises
\* BrokenPipeError.
SendHeld(s, action, e) ==
    LET p == s.procs[s.process] IN
    IF p.status # "alive" THEN Raise(s, "BrokenPipe", "")
    ELSE LET p1 == EngineReact(Write(p, action), e) IN
         IF p1.stdout = <<>> THEN ProcessDied(s, p1) ELSE Decode(s, p1)

\* Mutant of _send_action: without a process, a default observation
_send_action_unguarded(s, action, e) ==
    IF s.process = NoProcess
        THEN Return(s, Line("object", Absent, Absent, Absent, Absent))
        ELSE SendHeld(s, action, e)

\* ClorkEnv._send_action: write one line, read one line, decode it
_send_action(s, action, e) ==
    IF s.process = NoProcess THEN Raise(s, "NotStarted", "")
    ELSE SendHeld(s, action, e)

\* ClorkEnv._read_initial_state: read one line of the process just started
\* (the engine's start is its first input) and decode it
_read_initial_state(s, e) ==
    IF s.process = NoProcess THEN Raise(s, "NotStarted", "")
    ELSE LET p1 == EngineReact(s.procs[s.process], e) IN
         IF p1.stdout = <<>> THEN ProcessDied(s, p1) ELSE Decode(s, p1)

\* Mutant of reset: the reward and the done flag of the last turn are kept
reset_keeping_turn(s, e) ==
    LET s1 == IF s.process = NoProcess
                 THEN _read_initial_state(_start_process(s, e), e)
                 ELSE _send_action(s, [verb |-> "reset"], e)
    IN  IF Raised(s1) THEN s1 ELSE [s1 EXCEPT !.observation = s1.ret]

\* Mutant of reset: every reset starts a new process
reset_restarting(s, e) ==
    LET s1 == _read_initial_state(_start_process(s, e), e)
    IN  IF Raised(s1) THEN s1
        ELSE [s1 EXCEPT !.observation = s1.ret, !.last_reward = 0, !.done = FALSE]

\* ClorkEnv.reset
reset(s, e) ==
    LET s1 == IF s.process = NoProcess
                 THEN _read_initial_state(_start_process(s, e), e)
                 ELSE _send_action(s, [verb |-> "reset"], e)
    IN  IF Raised(s1) THEN s1
        ELSE [s1 EXCEPT !.observation = s1.ret, !.last_reward = 0, !.done = FALSE]

\* Mutant of Reward: composite-reward used whatever the mode
Reward_any_mode(response, rewards_mode) ==
    IF response.kind = "number" THEN [exc |-> "TypeError", reward |-> 0]
    ELSE IF Has(response.composite_reward)
        THEN [exc |-> "none", reward |-> Val(response.composite_reward)]
    ELSE IF Has(response.rewards)
        THEN IF Val(response.rewards).shape # "map"
                THEN [exc |-> "TypeError", reward |-> 0]
             ELSE IF Has(Val(response.rewards).score_delta)
                THEN [exc |-> "none", reward |-> Val(Val(response.rewards).score_delta)]
             ELSE [exc |-> "none", reward |-> 0]
    ELSE [exc |-> "none", reward |-> 0]

\* step(), lines 255-261: the reward of a reply; exc is the TypeError that
\* `in` raises on a value that is no container
Reward(response, rewards_mode) ==
    IF response.kind = "number" THEN [exc |-> "TypeError", reward |-> 0]
    ELSE IF rewards_mode /\ Has(response.composite_reward)
        THEN [exc |-> "none", reward |-> Val(response.composite_reward)]
    ELSE IF Has(response.rewards)
        THEN IF Val(response.rewards).shape # "map"
                THEN [exc |-> "TypeError", reward |-> 0]
             ELSE IF Has(Val(response.rewards).score_delta)
                THEN [exc |-> "none", reward |-> Val(Val(response.rewards).score_delta)]
             ELSE [exc |-> "none", reward |-> 0]
    ELSE [exc |-> "none", reward |-> 0]

\* response.get(key, default) on a decoded line: only a JSON object has .get
HasGet(response) == response.kind = "object"

\* ClorkEnv.step
step(s, action, e) ==
    LET s1 == _send_action(s, action_dict(action), e) IN
    IF Raised(s1) THEN s1
    ELSE LET response == s1.ret
             s2 == [s1 EXCEPT !.observation = response]
             r  == Reward(response, s.use_rewards)
         IN  IF r.exc # "none" THEN Raise(s2, r.exc, "")
             ELSE LET s3 == [s2 EXCEPT !.last_reward = r.reward] IN
                  IF ~HasGet(response) THEN Raise(s3, "AttributeError", "")
                  ELSE LET flag == IF Has(response.game_over)
                                       THEN Val(response.game_over) ELSE FALSE
                       IN  [s3 EXCEPT !.done = flag, !.ret_done = flag,
                                      !.ret_reward = r.reward]

\* Mutant of get_stats: the stats line is written and its reply left unread
get_stats_unread(s, e) ==
    IF s.process = NoProcess \/ s.procs[s.process].status # "alive"
        THEN Return(s, NoObservation)
        ELSE Return(WithProcess(s, EngineReact(Write(s.procs[s.process],
                                                     [verb |-> "stats"]), e)),
                    NoObservation)

\* Mutant of get_stats: the reply to stats becomes the cached observation
get_stats_caching(s, e) ==
    IF s.process = NoProcess THEN Return(s, NoObservation)
    ELSE LET s1 == _send_action(s, [verb |-> "stats"], e) IN
         IF Raised(s1) THEN s1
         ELSE IF ~HasGet(s1.ret) THEN Raise(s1, "AttributeError", "")
         ELSE [s1 EXCEPT !.observation = s1.ret]

\* ClorkEnv.get_stats; ret is the reply whose session-stats are returned
get_stats(s, e) ==
    IF s.process = NoProcess THEN Return(s, NoObservation)
    ELSE LET s1 == _send_action(s, [verb |-> "stats"], e) IN
         IF Raised(s1) THEN s1
         ELSE IF ~HasGet(s1.ret) THEN Raise(s1, "AttributeError", "")
         ELSE s1

----------------------------------------------------------------------------
(* The state machine: one action per public method, and the engine dying *)

\* the ClorkEnv object and its processes as the record the methods work on
Self ==
    [process |-> process, observation |-> observation, last_reward |-> last_reward,
     done |-> done, use_rewards |-> use_rewards, procs |-> procs,
     exc |-> "none", diag |-> "", ret |-> NoObservation,
     ret_reward |-> 0, ret_done |-> FALSE]

\* what a call returned (exc = "none") or raised: the observation, reward
\* and done flag returned, the session-stats returned by get_stats, the
\* text carried by the exception; read is the line the call decoded from
\* the engine's stdout (None when it decoded none)
Outcome(op, s, obs, reward, flag, stats) ==
    [op |-> op, exc |-> s.exc, diag |-> s.diag, read |-> s.ret,
     obs |-> IF Raised(s) THEN NoObservation ELSE obs,
     reward |-> IF Raised(s) THEN 0 ELSE reward,
     done |-> IF Raised(s) THEN FALSE ELSE flag,
     stats |-> IF Raised(s) THEN Absent ELSE stats]

\* the object's fields and the process table after a call
Commit(s) ==
    /\ process' = s.process
    /\ observation' = s.observation
    /\ last_reward' = s.last_reward
    /\ done' = s.done
    /\ procs' = s.procs
    /\ UNCHANGED <<use_rewards, envs, call>>

\* no ClorkVecEnv has been constructed; no function has been called
NoEnvs == <<>>
NoCall == [fn |-> "none", arg |-> <<>>, ret |-> <<>>]

\* lines written so far to the first n processes
RECURSIVE LinesWritten(_, _)
LinesWritten(table, n) ==
    IF n = 0 THEN 0 ELSE table[n].stdin_count + LinesWritten(table, n - 1)

\* a write by reset/step/get_stats stays within the bounds of the model
CanCommand ==
    process # NoProcess => LinesWritten(procs, Len(procs)) < MaxLines

Init ==
    /\ use_rewards \in BOOLEAN
    /\ process = NewEnv(use_rewards).process
    /\ observation = NewEnv(use_rewards).observation
    /\ last_reward = NewEnv(use_rewards).last_reward
    /\ done = NewEnv(use_rewards).done
    /\ procs = NewEnv(use_rewards).procs
    /\ result = Outcome("init", NewEnv(use_rewards), NoObservation, 0, FALSE, Absent)
    /\ envs = NoEnvs
    /\ call = NoCall

Reset ==
    /\ CanCommand
    /\ process = NoProcess => Len(procs) < MaxProcs
    /\ \E e \in EngineReactions :
        LET s == reset(Self, e) IN
        /\ Commit(s)
        /\ result' = Outcome("reset", s, s.observation, 0, FALSE, Absent)

Step ==
    /\ CanCommand
    /\ \E action \in StepInputs, e \in EngineReactions :
        LET s == step(Self, action, e) IN
        /\ Commit(s)
        /\ result' = Outcome("step", s, s.observation, s.ret_reward, s.ret_done, Absent)

GetStats ==
    /\ CanCommand
    /\ \E e \in EngineReactions :
        LET s == get_stats(Self, e) IN
        /\ Commit(s)
        /\ result' = Outcome("get_stats", s, NoObservation, 0, FALSE, s.ret.session_stats)

Close ==
    /\ \E e \in QuitReactions :
        LET s == close(Self, e) IN
        /\ Commit(s)
        /\ result' = Outcome("close", s, NoObservation, 0, FALSE, Absent)

\* the engine exits on its own between two calls
EngineDies ==
    /\ process # NoProcess
    /\ procs[process].status = "alive"
    /\ \E t \in StderrTexts :
        procs' = [procs EXCEPT ![process] = EngineReact(@, [out |-> <<>>, err |-> t, exits |-> TRUE])]
    /\ result' = Outcome("engine_exit", NewEnv(use_rewards), NoObservation, 0, FALSE, Absent)
    /\ UNCHANGED <<process, observation, last_reward, done, use_rewards, envs, call>>

Next == Reset \/ Step \/ GetStats \/ Close \/ EngineDies

Spec == Init /\ [][Next]_vars

----------------------------------------------------------------------------
(* Action.to_dict, Action.from_dict, the shorthand grammar and             *)
(* valid_actions: what they return depends on their argument alone (for    *)
(* valid_actions, on the cached observation).  Their arguments are drawn   *)
(* by the initial state; call holds the last call, and a function is       *)
(* applied to what the last call returned.                                  *)

\* Actions a caller may construct: every combination of the optional fields
\* being None, the empty string or a token
ActionInputs ==
    { Action("put", d, o, i, p) :
        d \in {None, "", "north"}, o \in {None, "", "lamp"},
        i \in {None, "", "case"}, p \in {None, "", "in"} }

\* the words of the shorthand strings: a direction, a verb, a noun
ShorthandTokens == {"north", "put", "lamp"}

\* action_str.lower().split() of the shorthand strings passed to step()
ShorthandInputs == UNION { [1..n -> ShorthandTokens] : n \in 0..MaxTokens }

\* the valid-actions member of an observation
Menu(meta, dirs, items, tuples) ==
    ("meta-verbs" :> meta) @@ ("movement" :> ("directions" :> dirs))
    @@ ("object-actions" :> items) @@ ("two-object-actions" :> tuples)

MetaVerbLists ==
    { <<>>, <<"look">>, <<"quit", "look">>, <<"inventory", "look">>,
      <<"look", "save", "inventory">> }

DirectionLists == { <<>>, <<"north">>, <<"south", "north">> }

\* object-actions as the items of the mapping, in its key order
ObjectActionItems ==
    { <<>>,
      << <<"lamp", "verbs" :> <<"take", "quit">> >> >>,
      << <<"sword", "verbs" :> <<"take">> >>, <<"lamp", "verbs" :> <<"take", "light">> >> >>,
      << <<"lamp", <<>> >>, <<"sword", "verbs" :> <<"take">> >> >> }

TwoObjectLists ==
    { <<>>,
      << ("verb" :> "put") @@ ("direct-object" :> "lamp")
         @@ ("prep" :> "in") @@ ("indirect-object" :> "case") >>,
      << ("verb" :> "put") @@ ("direct-object" :> "lamp"),
         ("verb" :> "tie") @@ ("direct-object" :> "rope")
         @@ ("prep" :> "to") @@ ("indirect-object" :> "hook") >> }

\* the cached observations valid_actions() may find: none, a JSON array,
\* an object without a menu, an object with an empty menu, objects with a
\* menu
ObservationInputs ==
    { [kind |-> "None", members |-> <<>>],
      [kind |-> "array", members |-> <<>>],
      [kind |-> "object", members |-> <<>>],
      [kind |-> "object", members |-> ("valid-actions" :> <<>>)] }
    \cup { [kind |-> "object", members |-> ("valid-actions" :> Menu(m, d, o, tw))] :
             m \in MetaVerbLists, d \in DirectionLists,
             o \in ObjectActionItems, tw \in TwoObjectLists }

\* the ClorkEnv object plays no part: it stays as constructed
InitFn ==
    /\ use_rewards = FALSE
    /\ process = NewEnv(use_rewards).process
    /\ observation = NewEnv(use_rewards).observation
    /\ last_reward = NewEnv(use_rewards).last_reward
    /\ done = NewEnv(use_rewards).done
    /\ procs = NewEnv(use_rewards).procs
    /\ result = Outcome("init", NewEnv(use_rewards), NoObservation, 0, FALSE, Absent)
    /\ envs = NoEnvs
    /\ \/ \E a \in ActionInputs : call = [fn |-> "Action", arg |-> <<>>, ret |-> a]
       \/ \E parts \in ShorthandInputs :
             call = [fn |-> "str", arg |-> <<>>, ret |-> parts]
       \/ \E obs \in ObservationInputs, flag \in BOOLEAN :
             call = [fn |-> "observation", arg |-> <<>>,
                     ret |-> [observation |-> obs, include_dangerous |-> flag]]

\* the effect of a call of a function on the state: call alone
Returns(fn, ret) ==
    /\ call' = [fn |-> fn, arg |-> call.ret, ret |-> ret]
    /\ UNCHANGED <<process, observation, last_reward, done, use_rewards, procs,
                   result, envs>>

\* a.to_dict() of an Action constructed or decoded
ToDict ==
    /\ call.fn \in {"Action", "from_dict"}
    /\ Returns("to_dict", to_dict(call.ret))

\* Action.from_dict(d) of an encoded Action
FromDict ==
    /\ call.fn = "to_dict"
    /\ Returns("from_dict", from_dict(call.ret))

\* step(), lines 243-249, on a shorthand string: the wire dict it sends
ParseActionString ==
    /\ call.fn = "str"
    /\ Returns("action_dict", action_dict(AsStr(call.ret)))

\* valid_actions(include_dangerous) on a cached observation
ValidActions ==
    /\ call.fn = "observation"
    /\ Returns("valid_actions",
               valid_actions(call.ret.observation, call.ret.include_dangerous))

NextFn == ToDict \/ FromDict \/ ParseActionString \/ ValidActions

SpecFn == InitFn /\ [][NextFn]_vars

----------------------------------------------------------------------------
(* ClorkVecEnv: num_envs ClorkEnv children, each with its own processes.   *)
(* A child is the record the ClorkEnv methods work on; a call of a         *)
(* ClorkVecEnv method walks the children in list order.                    *)

\* a child as it stands in self.envs between two calls
Settled(s) ==
    [s EXCEPT !.exc = "none", !.diag = "", !.ret = NoObservation,
              !.ret_reward = 0, !.ret_done = FALSE]

\* ClorkVecEnv.__init__: self.envs
NewVecEnv(num_envs, rewards_mode) == [i \in 1..num_envs |-> NewEnv(rewards_mode)]

\* a call in progress: the children, the exception on its way out, the
\* results collected so far, and the position of the loop (last: the index
\* of the child whose method was called last, 0 before the first)
VecCall(children) ==
    [envs |-> children, exc |-> "none", diag |-> "", last |-> 0,
     observations |-> <<>>, rewards |-> <<>>, dones |-> <<>>]

\* ClorkVecEnv.reset: [env.reset() for env in self.envs], from child i on.
\* An exception of a child leaves the comprehension at once.
RECURSIVE ResetFrom(_, _, _)
ResetFrom(v, es, i) ==
    IF i > Len(v.envs) THEN v
    ELSE LET s == reset(v.envs[i], es[i]) IN
         IF Raised(s)
            THEN [v EXCEPT !.envs[i] = Settled(s), !.exc = s.exc, !.diag = s.diag,
                           !.last = i]
            ELSE ResetFrom([v EXCEPT !.envs[i] = Settled(s), !.last = i,
                                     !.observations = Append(@, s.observation)],
                           es, i + 1)

vec_reset(children, es) == ResetFrom(VecCall(children), es, 1)

\* zip(self.envs, actions) ends with the shorter of the two
ZipLen(children, actions) ==
    IF Len(children) <= Len(actions) THEN Len(children) ELSE Len(actions)

\* ClorkVecEnv.step: [env.step(action) for env, action in zip(...)], from
\* pair i on, then the four lists taken from the results
RECURSIVE StepFrom(_, _, _, _)
StepFrom(v, actions, es, i) ==
    IF i > ZipLen(v.envs, actions) THEN v
    ELSE LET s == step(v.envs[i], actions[i], es[i]) IN
         IF Raised(s)
            THEN [v EXCEPT !.envs[i] = Settled(s), !.exc = s.exc, !.diag = s.diag,
                           !.last = i]
            ELSE StepFrom([v EXCEPT !.envs[i] = Settled(s), !.last = i,
                                    !.observations = Append(@, s.observation),
                                    !.rewards = Append(@, s.ret_reward),
                                    !.dones = Append(@, s.ret_done)],
                          actions, es, i + 1)

\* Mutant of vec_step: the results are collected in reverse order
vec_step_reversed(children, actions, es) ==
    LET v == StepFrom(VecCall(children), actions, es, 1)
        Reverse(q) == [i \in 1..Len(q) |-> q[Len(q) + 1 - i]]
    IN  [v EXCEPT !.observations = Reverse(@), !.rewards = Reverse(@),
                  !.dones = Reverse(@)]

\* Mutant of vec_step: every action is written before any reply is read, so
\* the children after one that fails are left with a reply unread
vec_step_fanout(children, actions, es) ==
    LET v == StepFrom(VecCall(children), actions, es, 1)
        Sent(s, i) ==
            IF s.process # NoProcess /\ s.procs[s.process].status = "alive"
               THEN WithProcess(s, EngineReact(Write(s.procs[s.process],
                                                     action_dict(actions[i])), es[i]))
               ELSE s
    IN  IF v.exc = "none" THEN v
        ELSE [v EXCEPT !.envs = [i \in 1..Len(children) |->
                                    IF i > v.last
                                       THEN Sent(v.envs[i], i) ELSE v.envs[i]]]

vec_step(children, actions, es) == StepFrom(VecCall(children), actions, es, 1)

\* ClorkVecEnv.close: for env in self.envs: env.close(), from child i on
RECURSIVE CloseFrom(_, _, _)
CloseFrom(v, es, i) ==
    IF i > Len(v.envs) THEN v
    ELSE LET s == close(v.envs[i], es[i]) IN
         IF Raised(s)
            THEN [v EXCEPT !.envs[i] = Settled(s), !.exc = s.exc, !.diag = s.diag,
                           !.last = i]
            ELSE CloseFrom([v EXCEPT !.envs[i] = Settled(s), !.last = i], es, i + 1)

\* Mutant of vec_close: the loop ends after the first child
vec_close_first(children, es) ==
    LET v == VecCall(children) IN
    IF Len(children) = 0 THEN v
    ELSE [v EXCEPT !.envs[1] = Settled(close(children[1], es[1])), !.last = 1]

vec_close(children, es) == CloseFrom(VecCall(children), es, 1)

\* The engine of child i marks its replies: their reward members hold i, so
\* a reply tells which engine wrote it.  A reply ends the game or not.
ChildLines(i) ==
    { Line("object", <<i>>, <<[shape |-> "map", score_delta |-> <<i>>]>>, <<g>>, Absent) :
        g \in BOOLEAN }

\* what the engine of child i does with one input: a reply, a line that is
\* no JSON, or death
ChildReactions(i) ==
    { [out |-> <<l>>, err |-> "", exits |-> TRUE] : l \in ChildLines(i) \cup TextLines }
    \cup { [out |-> <<>>, err |-> "", exits |-> TRUE] }

\* one reaction for each child
VecReactions ==
    { es \in [1..NumEnvs -> UNION { ChildReactions(i) : i \in 1..NumEnvs }] :
        \A i \in 1..NumEnvs : es[i] \in ChildReactions(i) }

VecQuitReactions == [1..NumEnvs -> QuitReactions]

\* the actions list passed to ClorkVecEnv.step: a different command for
\* every child
Commands ==
    << AsStr(<<"north">>), AsStr(<<"take", "lamp">>), AsStr(<<"look">>),
       AsStr(<<"inventory">>) >>
VecActionLists == { [i \in 1..NumEnvs |-> Commands[i]] }

\* What a ClorkVecEnv call returned or raised.  The exception of a child
\* goes up as it is: it names no index (index is absent).  arg is the
\* actions list of step; last is where the loop was when the call ended.
VecOutcome(op, v, arg) ==
    [op |-> op, exc |-> v.exc, diag |-> v.diag, index |-> Absent, arg |-> arg,
     last |-> v.last,
     obs |-> IF v.exc # "none" THEN <<>> ELSE v.observations,
     reward |-> IF v.exc # "none" THEN <<>> ELSE v.rewards,
     done |-> IF v.exc # "none" THEN <<>> ELSE v.dones]

\* the children and the last event after a call; no lone ClorkEnv is used
VecCommit(op, v, arg) ==
    /\ envs' = v.envs
    /\ result' = VecOutcome(op, v, arg)
    /\ UNCHANGED <<process, observation, last_reward, done, use_rewards, procs, call>>

\* every child may write one more line; every child without a process may
\* spawn one
VecCanCommand ==
    \A i \in 1..Len(envs) :
        envs[i].process # NoProcess =>
            LinesWritten(envs[i].procs, Len(envs[i].procs)) < MaxChildLines
VecCanSpawn ==
    \A i \in 1..Len(envs) :
        envs[i].process = NoProcess => Len(envs[i].procs) < MaxProcs

\* ClorkVecEnv(num_envs=NumEnvs, use_rewards=True)
InitVec ==
    /\ use_rewards = TRUE
    /\ process = NewEnv(use_rewards).process
    /\ observation = NewEnv(use_rewards).observation
    /\ last_reward = NewEnv(use_rewards).last_reward
    /\ done = NewEnv(use_rewards).done
    /\ procs = NewEnv(use_rewards).procs
    /\ envs = NewVecEnv(NumEnvs, use_rewards)
    /\ result = VecOutcome("init", VecCall(envs), <<>>)
    /\ call = NoCall

VecReset ==
    /\ VecCanCommand
    /\ VecCanSpawn
    /\ \E es \in VecReactions : VecCommit("vec_reset", vec_reset(envs, es), <<>>)

VecStep ==
    /\ VecCanCommand
    /\ \E actions \in VecActionLists, es \in VecReactions :
        VecCommit("vec_step", vec_step(envs, actions, es), actions)

VecClose ==
    /\ \E es \in VecQuitReactions : VecCommit("vec_close", vec_close(envs, es), <<>>)

\* the caller closes one child on its own: vec.envs[j].close()
ChildClose ==
    /\ \E j \in 1..Len(envs), e \in QuitReactions :
        LET s == close(envs[j], e) IN
        VecCommit("child_close",
                  [VecCall([envs EXCEPT ![j] = Settled(s)]) EXCEPT !.exc = s.exc,
                                                                  !.last = j], <<>>)

NextVec == VecReset \/ VecStep \/ VecClose \/ ChildClose

SpecVec == InitVec /\ [][NextVec]_vars

\* The step is a call of the method: every action records its event in
\* result, so result'.op names the action of a step that changes the state
Called(op) == result'.op = op

\* a call of reset, step or get_stats
Call == Called("reset") \/ Called("step") \/ Called("get_stats")

\* the engine of the process held after the step was alive (or not yet
\* spawned) before it and has exited during it: the read of the call found
\* the output stream at EOF
EofDuringCall ==
    /\ process' # NoProcess
    /\ procs'[process'].status = "exited"
    /\ process # NoProcess => procs[process].status = "alive"

\* C1: step() on an Environment that holds no process (never reset, or
\* closed) raises NotStarted whatever the form of the action, returns no
\* observation and writes no line to any engine process.
C1_StepWithoutProcessNotStarted ==
    [][(Called("step") /\ process = NoProcess) =>
        /\ result'.exc = "NotStarted"
        /\ result'.obs = NoObservation
        /\ procs' = procs
        /\ process' = NoProcess]_vars

\* step() has just raised NotStarted on an Environment that was closed
\* after running
C1_Witness ==
    /\ result.op = "step" /\ result.exc = "NotStarted"
    /\ process = NoProcess /\ Len(procs) > 0
    /\ observation # NoObservation

\* C2 (as claimed): while no reset() has succeeded (no observation is
\* cached), step() raises NotStarted and writes no line.
C2_StepBeforeSuccessfulReset ==
    [][(Called("step") /\ observation = NoObservation) =>
        (result'.exc = "NotStarted" /\ procs' = procs)]_vars

\* C3: close() never raises and leaves no process held; a close() on an
\* Environment without a process, and so a second close() in a row, writes
\* no quit line, kills nothing and changes no field.
C3_CloseIdempotent ==
    [][Called("close") =>
        /\ result'.exc = "none"
        /\ process' = NoProcess
        /\ (process = NoProcess \/ result.op = "close") =>
            /\ procs' = procs
            /\ <<observation', last_reward', done'>> = <<observation, last_reward, done>>]_vars

\* close() has returned normally on a process that had already exited
C3_Witness ==
    /\ result.op = "close" /\ result.exc = "none" /\ process = NoProcess
    /\ Len(procs) = 1
    /\ procs[1].status = "exited"
    /\ procs[1].stdin_last # <<[verb |-> "quit"]>>

\* C4: the constructor spawns nothing.  reset() without a process spawns
\* exactly one and reads its initial line (line 0) with nothing written to
\* it.  reset() with a process held spawns nothing and writes at most one
\* line, {verb: reset}, exactly one when the engine is there to take it; when
\* it returns, the cached observation is the reply to that line.
C4_LazyStartInBandReset ==
    /\ [](result.op = "init" => (procs = <<>> /\ process = NoProcess))
    /\ [][(Called("reset") /\ process = NoProcess) =>
            /\ Len(procs') = Len(procs) + 1
            /\ process' = Len(procs')
            /\ \A i \in DOMAIN procs : procs'[i] = procs[i]
            /\ procs'[process'].stdin_count = 0
            /\ result'.exc \in {"none", "MalformedReply"} =>
                    procs'[process'].stdout_read = <<0>>
            /\ result'.exc = "none" => observation' = result'.obs]_vars
    /\ [][(Called("reset") /\ process # NoProcess) =>
            /\ Len(procs') = Len(procs)
            /\ process' = process
            /\ \A i \in DOMAIN procs : i # process => procs'[i] = procs[i]
            /\ procs'[process].stdin_count <= procs[process].stdin_count + 1
            /\ procs[process].status = "alive" =>
                    /\ procs'[process].stdin_count = procs[process].stdin_count + 1
                    /\ procs'[process].stdin_last = <<[verb |-> "reset"]>>
            /\ procs[process].status # "alive" => procs'[process] = procs[process]
            /\ result'.exc = "none" =>
                    /\ observation' = result'.obs
                    /\ observation'.kind # "None"
                    /\ procs'[process].stdout_read = <<procs'[process].stdin_count>>]_vars

\* reset() has returned on a process that was already held: one reset line
\* written, its reply cached
C4_Witness ==
    /\ result.op = "reset" /\ result.exc = "none"
    /\ process # NoProcess
    /\ procs[process].stdin_count = 2
    /\ procs[process].stdin_last = <<[verb |-> "reset"]>>
    /\ procs[process].stdout_read = <<2>>
    /\ observation = result.obs

\* C5 (as claimed): CLOSED has no transition out of it: the operation that
\* follows a close() spawns no process and leaves the Environment without
\* one.
C5_ClosedIsTerminal ==
    [][result.op = "close" => (process' = NoProcess /\ Len(procs') = Len(procs))]_vars

\* C5 (amended): the only transitions are no-process -> running by reset(),
\* running -> running by reset(), step() and get_stats(), and any state ->
\* no-process by close().  The state after close() is the no-process state a
\* new Environment is in: reset() spawns from it whether or not close() has
\* been called, and step() and get_stats() never spawn or acquire a process.
C5_Lifecycle ==
    [][/\ (Called("step") \/ Called("get_stats") \/ Called("engine_exit")) =>
            (process' = process /\ Len(procs') = Len(procs))
       /\ Called("close") => (process' = NoProcess /\ Len(procs') = Len(procs))
       /\ (Called("reset") /\ process # NoProcess) =>
            (process' = process /\ Len(procs') = Len(procs))
       /\ (Called("reset") /\ process = NoProcess) =>
            (process' = Len(procs) + 1 /\ Len(procs') = Len(procs) + 1)]_vars

\* a closed Environment runs again, on its second process
C5_Witness ==
    /\ process = 2
    /\ procs[1].status \in {"exited", "killed"}
    /\ result.op = "reset" /\ result.exc = "none"

\* C6: when the read of a reset(), step() or get_stats() finds the output
\* stream at EOF, the call raises ProcessDied carrying all the engine wrote
\* to its error stream, returns no observation and no stats, and leaves the
\* cached observation as it was.
C6_EofRaisesProcessDied ==
    [][(Call /\ EofDuringCall) =>
        /\ result'.exc = "ProcessDied"
        /\ result'.diag = procs'[process'].stderr_log
        /\ result'.obs = NoObservation
        /\ result'.stats = Absent
        /\ observation' = observation]_vars

\* the first reset() found EOF and raised ProcessDied with the text of the
\* error stream
C6_Witness ==
    /\ result.op = "reset" /\ result.exc = "ProcessDied"
    /\ result.diag # ""
    /\ Len(procs) = 1 /\ procs[1].stdin_count = 0
    /\ observation = NoObservation

\* C7 (as claimed): reset() and step() return nothing but JSON objects as
\* the observation: a reply that is no object makes the call raise.
C7_OnlyObjectsReturned ==
    (result.op \in {"reset", "step"} /\ result.exc = "none") =>
        result.obs.kind = "object"

\* C8: between calls no process has an unread line in its output pipe, and
\* the last line read from a live process is the engine's reply to the last
\* line written to it (line 0, the initial observation, when none was
\* written); a call writes at most one line to a process, and a line it reads
\* is the engine's reply to the last line written.
C8_OneRequestInFlight ==
    /\ [](\A i \in DOMAIN procs :
            /\ procs[i].stdout = <<>>
            /\ procs[i].status = "alive" =>
                    procs[i].stdout_read = <<procs[i].stdin_count>>)
    /\ [][\A i \in DOMAIN procs :
            /\ procs'[i].stdin_count <= procs[i].stdin_count + 1
            /\ (Has(procs'[i].stdout_read) /\ procs'[i].stdout_read # procs[i].stdout_read) =>
                    /\ Call
                    /\ procs'[i].stdout_read = <<procs'[i].stdin_count>>
                    /\ procs'[i].stdin_count = procs[i].stdin_count + 1]_vars

\* two commands written to one live process, the reply to the second read
C8_Witness ==
    \E i \in DOMAIN procs :
        /\ procs[i].status = "alive"
        /\ procs[i].stdin_count = 2
        /\ procs[i].stdout_read = <<2>>

\* C9: close() on a held process raises nothing and drops the handle; the
\* process has exited or been killed when it returns; quit was written to it
\* if it was alive, and nothing if it had exited.
C9_CloseQuitsOrKills ==
    [][(Called("close") /\ process # NoProcess) =>
        /\ result'.exc = "none"
        /\ process' = NoProcess
        /\ procs'[process].status \in {"exited", "killed"}
        /\ procs[process].status = "alive" =>
                /\ procs'[process].stdin_count = procs[process].stdin_count + 1
                /\ procs'[process].stdin_last = <<[verb |-> "quit"]>>
        /\ procs[process].status # "alive" =>
                /\ procs'[process].stdin_count = procs[process].stdin_count
                /\ procs'[process].stdin_last = procs[process].stdin_last
        /\ \A i \in DOMAIN procs : i # process => procs'[i] = procs[i]]_vars

\* close() has killed a process that did not exit on quit
C9_Witness ==
    /\ result.op = "close" /\ process = NoProcess
    /\ \E i \in DOMAIN procs :
        /\ procs[i].status = "killed"
        /\ procs[i].stdin_last = <<[verb |-> "quit"]>>

\* the reward the policy of the specification gives for a reply
ExpectedReward(reply, mode) ==
    IF mode /\ Has(reply.composite_reward) THEN Val(reply.composite_reward)
    ELSE IF Has(reply.rewards) /\ Has(Val(reply.rewards).score_delta)
        THEN Val(Val(reply.rewards).score_delta)
    ELSE 0

\* C10: the reward step() returns, and stores as last reward, is the
\* reply's composite-reward when reward tracking is on and the reply has it,
\* else the reply's rewards.score-delta when it has it, else 0; an exception
\* of the reward extraction is never due to a missing member.
C10_RewardPriority ==
    /\ (result.op = "step" /\ result.exc = "none") =>
            /\ result.reward = ExpectedReward(result.obs, use_rewards)
            /\ last_reward = result.reward
    /\ (result.op = "step" /\ result.exc = "TypeError") =>
            \/ observation.kind = "number"
            \/ /\ Has(observation.rewards)
               /\ Val(observation.rewards).shape # "map"

\* reward tracking off, a reply with both members: score-delta is returned
C10_Witness ==
    /\ ~use_rewards
    /\ result.op = "step" /\ result.exc = "none"
    /\ Has(result.obs.composite_reward)
    /\ result.obs.composite_reward # <<1>>
    /\ result.reward = 1

\* C18: after every successful reset() the last reward is 0 and the done
\* flag is false, whatever the reply holds, and the cached observation is
\* the observation reset() returned, which is the one line reset() read.
C18_ResetClearsTurn ==
    (result.op = "reset" /\ result.exc = "none") =>
        /\ last_reward = 0
        /\ done = FALSE
        /\ observation = result.obs
        /\ observation = result.read

\* an in-band reset whose reply carries a reward and a true game-over flag
C18_Witness ==
    /\ result.op = "reset" /\ result.exc = "none"
    /\ procs[process].stdin_last = <<[verb |-> "reset"]>>
    /\ result.obs.game_over = <<TRUE>>
    /\ Has(result.obs.composite_reward)
    /\ last_reward = 0 /\ done = FALSE

\* C19: get_stats() never touches the cached observation, the last reward,
\* the done flag or the process handle.  Without a process it returns the
\* empty mapping and writes to no process.  With a live process it writes
\* exactly one line, {verb: stats}, and when it returns it has read the one
\* reply to that line and returns that reply's session-stats member (the
\* empty mapping when the reply has none).
C19_GetStatsReadsOnly ==
    [][Called("get_stats") =>
        /\ UNCHANGED <<process, observation, last_reward, done>>
        /\ process = NoProcess =>
              /\ result'.exc = "none"
              /\ result'.stats = Absent
              /\ procs' = procs
        /\ (process # NoProcess /\ procs[process].status = "alive") =>
              /\ Len(procs') = Len(procs)
              /\ \A i \in 1..Len(procs) : i # process => procs'[i] = procs[i]
              /\ procs'[process].stdin_count = procs[process].stdin_count + 1
              /\ procs'[process].stdin_last = <<[verb |-> "stats"]>>
              /\ result'.exc = "none" =>
                    /\ procs'[process].stdout = <<>>
                    /\ procs'[process].stdout_read = <<procs'[process].stdin_count>>
                    /\ result'.read.kind = "object"
                    /\ result'.stats = result'.read.session_stats
      ]_vars

\* get_stats() has returned the session-stats of a reply while the cache
\* holds the observation, reward and done flag of an earlier step
C19_Witness ==
    /\ result.op = "get_stats" /\ result.exc = "none"
    /\ result.stats = <<7>>
    /\ process # NoProcess
    /\ observation.kind = "object" /\ observation # result.read
    /\ done = TRUE /\ last_reward # 0

\* C20: a step() that fails leaves the cached observation, the last reward
\* and the done flag as they were before the call.
C20_FailedStepKeepsCache ==
    [][(Called("step") /\ result'.exc # "none") =>
        UNCHANGED <<observation, last_reward, done>>]_vars

----------------------------------------------------------------------------
(* Properties of the enumeration and of the Action conversions (SpecFn) *)

\* an Action of a verb alone, of a movement, of an object and a verb, of a
\* two-object tuple
VerbOnly(verb) == Action(verb, None, None, None, None)
Go(direction) == Action("go", direction, None, None, None)
OnObject(verb, obj_id) == Action(verb, None, obj_id, None, None)
OfTuple(tuple) ==
    Action(Get(tuple, "verb"), None, Get(tuple, "direct-object"),
           Get(tuple, "indirect-object"), Get(tuple, "prep"))

\* The sequence the menu va prescribes: the meta-verbs that pass the
\* filter, in menu order; the directions; the pairs (object, verb), object
\* i before object j for i < j in key order and the verbs of one object in
\* their order; the two-object tuples.
PrescribedActions(va, include_dangerous) ==
    LET Passes(v) == include_dangerous \/ v \notin {"quit", "save", "restore", "restart"}
        meta == SelectSeq(GetOr(va, "meta-verbs", <<>>), Passes)
        dirs == GetOr(GetOr(va, "movement", <<>>), "directions", <<>>)
        items == GetOr(va, "object-actions", <<>>)
        verbs(i) == GetOr(items[i][2], "verbs", <<>>)
        Pairs == UNION { { <<i, j>> : j \in 1..Len(verbs(i)) } : i \in 1..Len(items) }
        Rank(pr) == 1 + Cardinality({ q \in Pairs :
                        q[1] < pr[1] \/ (q[1] = pr[1] /\ q[2] < pr[2]) })
        PairAt(n) == CHOOSE pr \in Pairs : Rank(pr) = n
        tuples == GetOr(va, "two-object-actions", <<>>)
    IN  [i \in 1..Len(meta) |-> VerbOnly(meta[i])]
        \o [i \in 1..Len(dirs) |-> Go(dirs[i])]
        \o [n \in 1..Cardinality(Pairs) |->
               OnObject(verbs(PairAt(n)[1])[PairAt(n)[2]], items[PairAt(n)[1]][1])]
        \o [i \in 1..Len(tuples) |-> OfTuple(tuples[i])]

\* C11: for every cached observation that is an object, valid_actions
\* returns exactly the sequence its menu prescribes: meta-verbs without
\* quit, save, restore and restart unless include_dangerous, then the
\* movement directions, then the (object, verb) pairs in key order, then
\* the two-object tuples; nothing but meta-verbs is filtered.
C11_ValidActionsOrder ==
    (call.fn = "valid_actions" /\ call.arg.observation.kind = "object") =>
        /\ call.ret.exc = "none"
        /\ call.ret.actions =
              PrescribedActions(GetOr(call.arg.observation.members, "valid-actions", <<>>),
                                call.arg.include_dangerous)

\* a menu with all four sections, quit among its meta-verbs and among the
\* verbs of an object: without include_dangerous the first is left out and
\* the second is returned
C11_Witness ==
    /\ call.fn = "valid_actions"
    /\ ~call.arg.include_dangerous
    /\ GetOr(GetOr(call.arg.observation.members, "valid-actions", <<>>),
             "meta-verbs", <<>>) = <<"quit", "look">>
    /\ call.ret.actions =
          << VerbOnly("look"), Go("south"), Go("north"),
             OnObject("take", "lamp"), OnObject("quit", "lamp"),
             Action("put", None, "lamp", "case", "in") >>

\* the optional fields of an Action and their keys on the wire
OptionalFields == {"direction", "direct_object", "indirect_object", "prep"}
WireKey ==
    [direction |-> "direction", direct_object |-> "direct-object",
     indirect_object |-> "indirect-object", prep |-> "prep"]

\* well-formed: a non-empty verb, every other field None or a token
WellFormed(a) ==
    /\ a.verb \notin {None, ""}
    /\ \A f \in OptionalFields : a[f] # ""

\* C12: for every well-formed Action a, from_dict(to_dict(a)) = a, and
\* to_dict(a) has the key verb and a key exactly for each optional field
\* that is not None, holding the value of the field.
C12_RoundTrip ==
    [][(call.fn = "to_dict" /\ call'.fn = "from_dict" /\ WellFormed(call.arg)) =>
        /\ call'.ret = call.arg
        /\ DOMAIN call.ret =
              {"verb"} \cup { WireKey[f] : f \in { g \in OptionalFields : call.arg[g] # None } }
        /\ call.ret["verb"] = call.arg.verb
        /\ \A f \in OptionalFields :
              call.arg[f] # None => call.ret[WireKey[f]] = call.arg[f]
      ]_vars

\* a decoded Action with some optional fields set and one absent
C12_Witness ==
    /\ call.fn = "from_dict"
    /\ call.arg = ("verb" :> "put") @@ ("direct-object" :> "lamp")
                   @@ ("indirect-object" :> "case") @@ ("prep" :> "in")
    /\ call.ret = Action("put", None, "lamp", "case", "in")

\* the wire object the grammar gives for the tokens of a shorthand string
Grammar(parts) ==
    CASE Len(parts) = 0 -> [verb |-> "look"]
      [] Len(parts) = 1 /\ parts[1] \in directions ->
            ("verb" :> "go") @@ ("direction" :> parts[1])
      [] Len(parts) = 1 /\ parts[1] \notin directions -> [verb |-> parts[1]]
      [] Len(parts) = 2 -> ("verb" :> parts[1]) @@ ("direct-object" :> parts[2])
      [] Len(parts) = 3 ->
            ("verb" :> parts[1]) @@ ("direct-object" :> parts[2] \o " " \o parts[3])
      [] Len(parts) >= 4 ->
            ("verb" :> parts[1]) @@ ("direct-object" :> parts[2])
            @@ ("prep" :> parts[3]) @@ ("indirect-object" :> parts[4])

\* C13: the wire dict step() makes of a shorthand string is the one the
\* grammar gives by the number of its tokens.
C13_GrammarByTokenCount ==
    call.fn = "action_dict" => call.ret = Grammar(call.arg)

----------------------------------------------------------------------------
(* Properties of ClorkVecEnv (SpecVec) *)

\* the process child c holds
HeldBy(c) == c.procs[c.process]

\* the line was written by the engine of child i
FromEngine(i, line) == line \in ChildLines(i)

\* processes spawned by child c plus lines written to them: reset() adds
\* one (a spawn or a reset line), step() adds one line
Driven(c) == Len(c.procs) + LinesWritten(c.procs, Len(c.procs))

\* child i has made one round trip of its own in the step: it has written
\* one line to its process and read the reply to that line
RoundTrip(i) ==
    /\ envs'[i].process # NoProcess
    /\ Driven(envs'[i]) = Driven(envs[i]) + 1
    /\ HeldBy(envs'[i]).stdout = <<>>
    /\ HeldBy(envs'[i]).stdout_read = <<HeldBy(envs'[i]).stdin_count>>

\* C14: reset() returns NumEnvs observations and step(actions) lists of
\* NumEnvs entries; entry i is what child i returned, child i cached, and
\* the engine of child i wrote in reply to actions[i]; when a call fails at
\* child i, the children before i have been driven and those after i have
\* not been touched (index order).
C14_IndexAligned ==
    [][/\ (Called("vec_reset") /\ result'.exc = "none") =>
            /\ Len(result'.obs) = NumEnvs
            /\ \A i \in 1..NumEnvs :
                  /\ RoundTrip(i)
                  /\ result'.obs[i] = envs'[i].observation
                  /\ FromEngine(i, result'.obs[i])
       /\ (Called("vec_step") /\ result'.exc = "none") =>
            /\ Len(result'.obs) = NumEnvs
            /\ Len(result'.reward) = NumEnvs
            /\ Len(result'.done) = NumEnvs
            /\ \A i \in 1..NumEnvs :
                  /\ RoundTrip(i)
                  /\ HeldBy(envs'[i]).stdin_last = <<action_dict(result'.arg[i])>>
                  /\ result'.obs[i] = envs'[i].observation
                  /\ FromEngine(i, result'.obs[i])
                  /\ result'.reward[i] = Val(result'.obs[i].composite_reward)
                  /\ result'.done[i] = Val(result'.obs[i].game_over)
       /\ ((Called("vec_reset") \/ Called("vec_step")) /\ result'.exc # "none") =>
            /\ result'.last \in 1..NumEnvs
            /\ \A j \in 1..NumEnvs :
                  /\ j < result'.last => RoundTrip(j)
                  /\ j > result'.last => envs'[j] = envs[j]
      ]_vars

\* a step of both children: each has been sent its own command and the
\* lists hold the replies in the order of the children
C14_Witness ==
    /\ result.op = "vec_step" /\ result.exc = "none"
    /\ HeldBy(envs[1]).stdin_last = <<[verb |-> "go", direction |-> "north"]>>
    /\ HeldBy(envs[2]).stdin_last = <<("verb" :> "take") @@ ("direct-object" :> "lamp")>>
    /\ result.reward = <<1, 2>>
    /\ result.done = <<TRUE, FALSE>>

\* C15: when the round trip of child i fails in step(), the error raised
\* names index i.
C15_ErrorNamesIndex ==
    [][(Called("vec_step") /\ result'.exc # "none") =>
        result'.index = <<result'.last>>]_vars

\* child c is sound as child j: what it caches comes from replies of its
\* own engine, and nothing is unread in the pipe of a live process it holds
Sound(c, j) ==
    /\ c.observation # NoObservation => FromEngine(j, c.observation)
    /\ c.last_reward \in {0, j}
    /\ c.done => c.observation.game_over = <<TRUE>>
    /\ (c.process # NoProcess /\ HeldBy(c).status = "alive") =>
          /\ HeldBy(c).stdout = <<>>
          /\ HeldBy(c).stdout_read = <<HeldBy(c).stdin_count>>

\* C16: when step() fails at child i, every other child j is sound; a
\* child before i has made its own round trip and caches the observation,
\* reward and done flag of that reply, a child after i is as it was; and
\* close() on one child ends that child's process, raises nothing and
\* leaves the other children as they were.
C16_FailureIsolated ==
    [][/\ (Called("vec_step") /\ result'.exc # "none") =>
            \A j \in 1..NumEnvs \ {result'.last} :
                /\ Sound(envs'[j], j)
                /\ j > result'.last => envs'[j] = envs[j]
                /\ j < result'.last =>
                      /\ RoundTrip(j)
                      /\ envs'[j].last_reward = Val(envs'[j].observation.composite_reward)
                      /\ envs'[j].done = Val(envs'[j].observation.game_over)
       /\ Called("child_close") =>
            /\ result'.exc = "none"
            /\ \A j \in 1..NumEnvs :
                  IF j = result'.last
                     THEN /\ envs'[j].process = NoProcess
                          /\ \A k \in 1..Len(envs'[j].procs) :
                                envs'[j].procs[k].status # "alive"
                     ELSE envs'[j] = envs[j]
      ]_vars

\* the engine of child 2 has died in a step: child 1 has made its round
\* trip before and caches the final turn of its own engine
C16_Witness ==
    /\ result.op = "vec_step" /\ result.exc = "ProcessDied" /\ result.last = 2
    /\ HeldBy(envs[2]).status = "exited"
    /\ HeldBy(envs[1]).status = "alive"
    /\ HeldBy(envs[1]).stdin_count = 1
    /\ envs[1].done /\ envs[1].last_reward = 1

----------------------------------------------------------------------------
(* Ownership of the engine processes (Spec) *)

\* C21: after every call, and after the engine has exited on its own, every
\* process the environment ever spawned other than the one it holds has
\* exited or been killed, so at most one is alive; a process is spawned
\* only by reset() while no process is held, and it becomes the one held;
\* the handle is dropped only by close(), and the process it held has then
\* been sent quit and has exited, or has been killed, or was dead already.
C21_OneProcessOwned ==
    [][/\ \A i \in 1..Len(procs') : i # process' => procs'[i].status # "alive"
       /\ Cardinality({ i \in 1..Len(procs') : procs'[i].status = "alive" }) <= 1
       /\ Len(procs') # Len(procs) =>
             /\ Called("reset")
             /\ process = NoProcess
             /\ Len(procs') = Len(procs) + 1
             /\ process' = Len(procs')
       /\ process' # process =>
             \/ process = NoProcess /\ Called("reset")
             \/ /\ process' = NoProcess
                /\ Called("close")
                /\ \/ procs'[process].status = "killed"
                   \/ /\ procs'[process].status = "exited"
                      /\ \/ procs[process].status = "exited"
                         \/ procs'[process].stdin_last = <<[verb |-> "quit"]>>
      ]_vars

\* a second process is held and alive, and the first, which did not exit
\* on quit, has been killed
C21_Witness ==
    /\ Len(procs) = 2 /\ process = 2
    /\ procs[2].status = "alive"
    /\ procs[1].status = "killed"
    /\ procs[1].stdin_last = <<[verb |-> "quit"]>>

\* C22: a reset(), step() or get_stats() that fails with ProcessDied leaves
\* the environment holding the process that died (the one it held before,
\* or the one the reset had just spawned); a reset() on a held dead process
\* fails, spawns nothing and keeps the handle; no call but close() drops
\* the handle and no call but a reset() without a handle spawns a process.
C22_DeadChannelKept ==
    [][/\ (Call /\ result'.exc = "ProcessDied") =>
             /\ process' # NoProcess
             /\ procs'[process'].status = "exited"
             /\ process # NoProcess => process' = process
             /\ process = NoProcess => (Called("reset") /\ process' = Len(procs) + 1)
       /\ (Called("reset") /\ process # NoProcess /\ procs[process].status # "alive") =>
             /\ result'.exc # "none"
             /\ process' = process
             /\ Len(procs') = Len(procs)
             /\ procs'[process].status = procs[process].status
       /\ (process # NoProcess /\ procs[process].status # "alive"
           /\ ~Called("close")) =>
             /\ process' = process
             /\ Len(procs') = Len(procs)
       /\ (process # NoProcess /\ procs[process].status # "alive"
           /\ Called("close")) =>
             /\ process' = NoProcess
             /\ Len(procs') = Len(procs)
      ]_vars

\* the first engine died without having been sent quit, close() let go of
\* it and a reset() has spawned a second engine that answered
C22_Witness ==
    /\ Len(procs) = 2 /\ process = 2
    /\ procs[1].status = "exited"
    /\ procs[1].stdin_last # <<[verb |-> "quit"]>>
    /\ procs[2].status = "alive"
    /\ result.op = "reset" /\ result.exc = "none"

====
